---- MODULE Spec2Model ----
(***************************************************************************)
(* Model of app.py: a Streamlit page with seven numeric inputs and one     *)
(* "Predict" button.  Every user interaction re-executes the script from   *)
(* top to bottom; load_model is memoised by st.cache_resource for the life *)
(* of the process.  Numeric field values are integers in tenths.           *)
(***************************************************************************)
EXTENDS Integers, Sequences, FiniteSets, TLC

VARIABLES fields,   \* current value of the seven number_input widgets
          disk,     \* what lies at the model path on the filesystem
          cache,    \* the st.cache_resource entry of load_model()
          out,      \* elements rendered in the output column by the last run
          run,      \* what the last script run did (calls made, exceptions)
          clicks,   \* number of Predict clicks so far
          first     \* first click whose load_model() returned a model

vars == <<fields, disk, cache, out, run, clicks, first>>

\* Number of Predict clicks explored.
MaxClicks == 3

-----------------------------------------------------------------------------
(* Values *)

ModelPath == "system_production_model.pkl"

NoExc == [type |-> "none", msg |-> <<>>]
NoModel == [id |-> 0, kind |-> "none"]

\* Exception classes derived from Exception that the run can meet.
ExceptionTypes == {"FileNotFoundError", "ValueError", "EOFError", "TypeError"}

\* Contents the artifact file can have: a model that predicts one scalar per
\* row, a model fitted on another number of features, a model whose predict
\* opens a file that is missing, a multi-output model, a model that predicts
\* a string label, a model that predicts None, a truncated pickle, and a
\* pickle whose companion array file is missing.
ModelKinds == {"good", "wrong_features", "fnf_predict", "multi",
               "str_label", "none_label"}
DiskStates == {"absent", "corrupt", "split"} \cup ModelKinds

FieldOrder == <<"date_hour", "wind_speed", "sunshine", "air_pressure",
                "radiation", "air_temperature", "relative_humidity">>
FieldNames == {FieldOrder[i] : i \in 1..Len(FieldOrder)}

\* min_value / max_value / value of each number_input, in tenths.
Widgets ==
  [date_hour         |-> [hasMin |-> FALSE, min |-> 0,    hasMax |-> FALSE, max |-> 0,     value |-> 10],
   wind_speed        |-> [hasMin |-> TRUE,  min |-> 0,    hasMax |-> TRUE,  max |-> 500,   value |-> 35],
   sunshine          |-> [hasMin |-> TRUE,  min |-> 0,    hasMax |-> TRUE,  max |-> 240,   value |-> 60],
   air_pressure      |-> [hasMin |-> TRUE,  min |-> 8000, hasMax |-> TRUE,  max |-> 11000, value |-> 10130],
   radiation         |-> [hasMin |-> TRUE,  min |-> 0,    hasMax |-> TRUE,  max |-> 15000, value |-> 6500],
   air_temperature   |-> [hasMin |-> TRUE,  min |-> -200, hasMax |-> TRUE,  max |-> 600,   value |-> 280],
   relative_humidity |-> [hasMin |-> TRUE,  min |-> 0,    hasMax |-> TRUE,  max |-> 1000,  value |-> 450]]

\* Values a user may try to type into a field: one below the minimum, the
\* default, the maximum (a negative value for the unbounded date_hour).
Candidates(f) ==
  IF Widgets[f].hasMin
    THEN {Widgets[f].min - 1, Widgets[f].value, Widgets[f].max}
    ELSE {-25, Widgets[f].value}

\* number_input accepts a value only inside [min_value, max_value].
InBounds(f, v) ==
  /\ Widgets[f].hasMin => v >= Widgets[f].min
  /\ Widgets[f].hasMax => v <= Widgets[f].max

-----------------------------------------------------------------------------
(* Text *)

Abs(v) == IF v < 0 THEN -v ELSE v

\* f"{x:.2f}" of a value given in tenths: sign, integer part, two decimals.
Fmt2(v) ==
  <<IF v < 0 THEN "-" ELSE "", ToString(Abs(v) \div 10), ".",
    ToString(Abs(v) % 10), "0">>

NotFoundMessageNoPath(model_path) ==
  <<"Model file not found. ", "Make sure it is in the same folder as app.py.">>

\* The message of the FileNotFoundError raised by load_model.
NotFoundMessage(model_path) ==
  <<"Model file '", model_path, "' not found. ",
    "Make sure it is in the same folder as app.py.">>

GenericFailureText == <<"An error occurred while generating prediction.">>
InfoText == <<"Click **Predict Solar Energy** after entering all inputs.">>

\* str(e)
Str(e) == e.msg

\* One rendered element: the widget, its text, its payload, and the
\* container it is drawn in.
Element(w, text, body, parent) ==
  [w |-> w, text |-> text, body |-> body, parent |-> parent]

-----------------------------------------------------------------------------
(* Model loader *)

ExistsAlways(d) == TRUE

\* Path.exists()
Exists(d) == d # "absent"

\* joblib.load(path): a new object per deserialisation, or the error of the
\* underlying mechanism.
JoblibLoad(path, d, n) ==
  CASE d = "absent"  -> [raised |-> TRUE, value |-> NoModel,
                         exc |-> [type |-> "FileNotFoundError",
                                  msg |-> <<"[Errno 2] No such file or directory: ", path>>]]
    [] d = "corrupt" -> [raised |-> TRUE, value |-> NoModel,
                         exc |-> [type |-> "EOFError", msg |-> <<"Ran out of input">>]]
    [] d = "split"   -> [raised |-> TRUE, value |-> NoModel,
                         exc |-> [type |-> "FileNotFoundError",
                                  msg |-> <<"[Errno 2] No such file or directory: ", "arrays_01.npy">>]]
    [] OTHER         -> [raised |-> FALSE, value |-> [id |-> n, kind |-> d], exc |-> NoExc]

\* The undecorated body of load_model.  Path.exists() reads the filesystem
\* as it is at the check (d); joblib.load reads it as it is afterwards (d2).
load_model_body(model_path, d, d2, n) ==
  IF ~Exists(d)
    THEN [raised |-> TRUE, value |-> NoModel,
          exc |-> [type |-> "FileNotFoundError", msg |-> NotFoundMessage(model_path)],
          existsChecks |-> 1, deserializations |-> 0]
    ELSE LET J == JoblibLoad(model_path, d2, n)
         IN [raised |-> J.raised, value |-> J.value, exc |-> J.exc,
             existsChecks |-> 1, deserializations |-> 1]

CacheHitNever(c) == FALSE

\* st.cache_resource: is there a stored return value for this call?
CacheHit(c) == c # NoModel

CacheStoreNothing(c, r) == c

\* st.cache_resource: a return value is stored, an exception is not.
CacheStore(c, r) == IF r.raised THEN c ELSE r.value

\* load_model as decorated by @st.cache_resource.
load_model(model_path, c, d, d2, n) ==
  IF CacheHit(c)
    THEN [raised |-> FALSE, value |-> c, exc |-> NoExc,
          existsChecks |-> 0, deserializations |-> 0, cache |-> c]
    ELSE LET B == load_model_body(model_path, d, d2, n)
         IN [raised |-> B.raised, value |-> B.value, exc |-> B.exc,
             existsChecks |-> B.existsChecks,
             deserializations |-> B.deserializations,
             cache |-> CacheStore(c, B)]

-----------------------------------------------------------------------------
(* Inference *)

FeaturesSwapped(f) ==
  << <<f.wind_speed, f.date_hour, f.sunshine, f.air_pressure,
       f.radiation, f.air_temperature, f.relative_humidity>> >>

\* np.array([[...]]): one row of the seven field values.
Features(f) ==
  << <<f.date_hour, f.wind_speed, f.sunshine, f.air_pressure,
       f.radiation, f.air_temperature, f.relative_humidity>> >>

\* model.predict(X) of the opaque estimator: a flat array of outputs, or
\* the estimator's exception.
ModelPredict(m, X) ==
  CASE m.kind = "good" ->
         [raised |-> FALSE, exc |-> NoExc,
          value |-> [i \in 1..Len(X) |->
                       [type |-> "float", model |-> m.id, x |-> X[i]]]]
    [] m.kind = "str_label" ->
         [raised |-> FALSE, exc |-> NoExc,
          value |-> [i \in 1..Len(X) |->
                       [type |-> "str", model |-> m.id, x |-> X[i]]]]
    [] m.kind = "none_label" ->
         [raised |-> FALSE, exc |-> NoExc,
          value |-> [i \in 1..Len(X) |->
                       [type |-> "NoneType", model |-> m.id, x |-> X[i]]]]
    [] m.kind = "multi" ->
         [raised |-> FALSE, exc |-> NoExc,
          value |-> [i \in 1..(2 * Len(X)) |->
                       [type |-> "float", model |-> m.id, x |-> X[(i + 1) \div 2]]]]
    [] m.kind = "wrong_features" ->
         [raised |-> TRUE, value |-> <<>>,
          exc |-> [type |-> "ValueError",
                   msg |-> <<"X has ", ToString(Len(X[1])),
                            " features, but the model is expecting ", "5">>]]
    [] OTHER ->
         [raised |-> TRUE, value |-> <<>>,
          exc |-> [type |-> "FileNotFoundError",
                   msg |-> <<"[Errno 2] No such file or directory: ", "lookup.csv">>]]

NoValue == [type |-> "none", model |-> 0, x |-> <<>>]

\* ndarray.item(): the single element, or ValueError.
Item(a) ==
  IF Len(a) = 1
    THEN [raised |-> FALSE, exc |-> NoExc, value |-> a[1]]
    ELSE [raised |-> TRUE, value |-> NoValue,
          exc |-> [type |-> "ValueError",
                   msg |-> <<"can only convert an array of size 1 to a Python scalar">>]]

\* model.predict(features).item()
Inference(m, X) ==
  LET P == ModelPredict(m, X)
  IN IF P.raised
       THEN [raised |-> TRUE, exc |-> P.exc, value |-> NoValue]
       ELSE Item(P.value)

-----------------------------------------------------------------------------
(* Output area *)

ButtonAlways(trigger) == TRUE

\* st.button: True only in the run its click triggers.
Button(trigger) == trigger = "click"

\* f"{prediction:,.2f}": defined for numbers; str and None reject the format.
FormatPrediction(prediction) ==
  CASE prediction.type = "float" ->
         [raised |-> FALSE, exc |-> NoExc,
          value |-> [fmt |-> ",.2f", of |-> prediction]]
    [] prediction.type = "str" ->
         [raised |-> TRUE, value |-> [fmt |-> ",.2f", of |-> NoValue],
          exc |-> [type |-> "ValueError",
                   msg |-> <<"Unknown format code 'f' for object of type 'str'">>]]
    [] OTHER ->
         [raised |-> TRUE, value |-> [fmt |-> ",.2f", of |-> NoValue],
          exc |-> [type |-> "TypeError",
                   msg |-> <<"unsupported format string passed to ",
                             prediction.type, ".__format__">>]]

\* st.metric, st.success and the collapsed expander holding st.write(features).
SuccessOutput(value, f, X) ==
  <<Element("metric", <<"Predicted System / Solar Energy">>,
            value, "output_col"),
    Element("success",
            <<"Prediction generated successfully for Date-Hour (NMT): **">>
              \o Fmt2(f.date_hour) \o <<"**">>,
            <<>>, "output_col"),
    Element("expander", <<"View raw input vector">>, [expanded |-> FALSE], "output_col"),
    Element("write", <<>>, X, "expander")>>

HandleExceptionNoCatchAll(e) ==
  IF e.type = "FileNotFoundError"
    THEN [out |-> <<Element("error", Str(e), <<>>, "output_col")>>, uncaught |-> NoExc]
    ELSE [out |-> <<>>, uncaught |-> e]

\* except FileNotFoundError / except Exception
HandleException(e) ==
  IF e.type = "FileNotFoundError"
    THEN [out |-> <<Element("error", Str(e), <<>>, "output_col")>>, uncaught |-> NoExc]
    ELSE IF e.type \in ExceptionTypes
      THEN [out |-> <<Element("error", GenericFailureText, <<>>, "output_col"),
                      Element("exception", Str(e), e, "output_col")>>,
            uncaught |-> NoExc]
      ELSE [out |-> <<>>, uncaught |-> e]

\* A run that reads nothing from the filesystem records no file state.
IdleRun(trigger) ==
  [trigger |-> trigger, n |-> 0, disk |-> "unread", diskAtLoad |-> "unread",
   loadCalls |-> 0, existsChecks |-> 0, deserializations |-> 0,
   loadExc |-> NoExc, model |-> NoModel,
   predictArgs |-> <<>>, inferExc |-> NoExc, renderExc |-> NoExc,
   uncaught |-> NoExc]

\* The output column of one script run: what is rendered, the cache after
\* the run, and the calls the run made.  d is the filesystem when the run
\* checks the path, d2 the filesystem when it opens the file.
OutputArea(trigger, f, c, d, d2, n) ==
  IF ~Button(trigger)
    THEN [out |-> <<Element("info", InfoText, <<>>, "output_col")>>,
          cache |-> c, run |-> IdleRun(trigger)]
    ELSE
      LET L == load_model(ModelPath, c, d, d2, n)
          base == [IdleRun(trigger) EXCEPT
                     !.n = n, !.loadCalls = 1, !.disk = d,
                     !.diskAtLoad = IF L.deserializations = 1 THEN d2 ELSE "unread",
                     !.existsChecks = L.existsChecks,
                     !.deserializations = L.deserializations,
                     !.loadExc = L.exc, !.model = L.value]
      IN IF L.raised
           THEN LET H == HandleException(L.exc)
                IN [out |-> H.out, cache |-> L.cache,
                    run |-> [base EXCEPT !.uncaught = H.uncaught]]
           ELSE
             LET X == Features(f)
                 I == Inference(L.value, X)
                 called == [base EXCEPT !.predictArgs = <<X>>, !.inferExc = I.exc]
             IN IF I.raised
                  THEN LET H == HandleException(I.exc)
                       IN [out |-> H.out, cache |-> L.cache,
                           run |-> [called EXCEPT !.uncaught = H.uncaught]]
                  ELSE
                    LET F == FormatPrediction(I.value)
                    IN IF F.raised
                         THEN LET H == HandleException(F.exc)
                              IN [out |-> H.out, cache |-> L.cache,
                                  run |-> [called EXCEPT !.renderExc = F.exc,
                                                         !.uncaught = H.uncaught]]
                         ELSE [out |-> SuccessOutput(F.value, f, X),
                               cache |-> L.cache, run |-> called]

-----------------------------------------------------------------------------
(* State machine *)

Init ==
  /\ fields = [f \in FieldNames |-> Widgets[f].value]
  /\ disk \in DiskStates
  /\ cache = NoModel
  /\ clicks = 0
  /\ first = [n |-> 0, model |-> NoModel]
  /\ LET R == OutputArea("initial", fields, cache, disk, disk, 0)
     IN out = R.out /\ run = R.run

\* The user edits one field; the script reruns with the button unpressed.
FieldChange ==
  \E f \in FieldNames : \E v \in Candidates(f) :
    /\ InBounds(f, v)
    /\ v # fields[f]
    /\ fields' = [fields EXCEPT ![f] = v]
    /\ LET R == OutputArea("field_change", fields', cache, disk, disk, clicks)
       IN out' = R.out /\ run' = R.run /\ cache' = R.cache
    /\ UNCHANGED <<disk, clicks, first>>

\* The user clicks Predict; the script reruns with predict_clicked = True.
\* The path check and the deserialisation are two filesystem reads: the file
\* may be removed or replaced between them (d2 is what the second one finds;
\* a run that never reaches the second read leaves the file as it was).
ClickPredict ==
  \E d2 \in DiskStates :
    /\ clicks < MaxClicks
    /\ (CacheHit(cache) \/ ~Exists(disk)) => d2 = disk
    /\ clicks' = clicks + 1
    /\ disk' = d2
    /\ LET R == OutputArea("click", fields, cache, disk, d2, clicks')
       IN /\ out' = R.out /\ run' = R.run /\ cache' = R.cache
          /\ first' = IF first.n = 0 /\ R.run.model # NoModel
                        THEN [n |-> clicks', model |-> R.run.model]
                        ELSE first
    /\ UNCHANGED fields

\* The artifact file is deleted.
RemoveFile ==
  /\ disk # "absent"
  /\ disk' = "absent"
  /\ UNCHANGED <<fields, cache, out, run, clicks, first>>

\* A file is written at the model path.
PlaceFile ==
  \E d \in DiskStates \ {"absent"} :
    /\ d # disk
    /\ disk' = d
    /\ UNCHANGED <<fields, cache, out, run, clicks, first>>

Next == FieldChange \/ ClickPredict \/ RemoveFile \/ PlaceFile

Spec == Init /\ [][Next]_vars

-----------------------------------------------------------------------------
(* Properties *)

Range(s) == {s[i] : i \in 1..Len(s)}
Shown(w) == \E i \in 1..Len(out) : out[i].w = w
IsClick == run.trigger = "click"
LoadFailed == run.loadExc # NoExc
InferenceRaised == run.inferExc # NoExc
RenderRaised == run.renderExc # NoExc
\* The output column holds exactly the missing-artifact error.
NotFoundShown ==
  /\ Len(out) = 1
  /\ out[1].w = "error"
  /\ out[1].parent = "output_col"
  /\ out[1].text = <<"Model file '", "system_production_model.pkl", "' not found. ",
                     "Make sure it is in the same folder as app.py.">>
\* The output column opens with the generic prediction-failure error.
GenericShown ==
  /\ Len(out) >= 1
  /\ out[1].w = "error"
  /\ out[1].text = <<"An error occurred while generating prediction.">>
  /\ \A i \in 2..Len(out) : out[i].w # "error"

\* C1: once a click's load_model has returned a model, every later click's
\* load_model returns that same object, runs neither the existence check nor
\* the deserialisation, and the cached object never changes.
C1_CachedAfterSuccess ==
  [][first.n > 0 =>
       /\ cache' = cache
       /\ cache = first.model
       /\ first' = first
       /\ clicks' # clicks =>
            /\ run'.model = first.model
            /\ run'.loadExc = NoExc
            /\ run'.existsChecks = 0
            /\ run'.deserializations = 0]_vars

\* A later click, made after the file was removed or replaced, got the model
\* of the first successful load.
C1_Witness ==
  /\ IsClick
  /\ first.n > 0
  /\ run.n > first.n
  /\ run.disk # first.model.kind
  /\ run.model = first.model

\* C2 as stated: whenever the file is absent when load_model is called, the
\* call fails with the missing-artifact error and yields no model, even
\* after an earlier successful load.
C2_AbsentAlwaysFails ==
  (IsClick /\ run.disk = "absent") =>
     /\ run.loadExc = [type |-> "FileNotFoundError",
                       msg |-> <<"Model file '", "system_production_model.pkl",
                                 "' not found. ",
                                 "Make sure it is in the same folder as app.py.">>]
     /\ run.model = NoModel

\* C2 amended: whenever the file is absent when load_model is called and no
\* earlier load in the process has succeeded, the call fails with the
\* missing-artifact error and yields no model.
C2_AbsentFailsUnlessCached ==
  (IsClick /\ run.disk = "absent" /\ (first.n = 0 \/ first.n = run.n)) =>
     /\ run.loadExc = [type |-> "FileNotFoundError",
                       msg |-> <<"Model file '", "system_production_model.pkl",
                                 "' not found. ",
                                 "Make sure it is in the same folder as app.py.">>]
     /\ run.model = NoModel
     /\ run.deserializations = 0
     /\ cache = NoModel

\* A second or later click met an absent file with nothing cached.
C2_Witness ==
  /\ IsClick
  /\ run.n >= 2
  /\ run.disk = "absent"
  /\ first.n = 0
  /\ LoadFailed

\* C3: every exception raised by model.predict(...).item() is shown as the
\* generic prediction-failure message, and the except FileNotFoundError
\* branch runs only for load_model's missing-artifact error.
C3_InferenceErrorsAreGeneric ==
  /\ (IsClick /\ InferenceRaised) => GenericShown
  /\ (IsClick /\ Len(out) = 1 /\ out[1].w = "error") =>
        (run.disk = "absent" /\ run.existsChecks = 1)

\* C4: a click whose load_model runs against an absent file shows exactly
\* one element, the missing-artifact error naming the attempted path, and no
\* metric, success notice or generic failure message.
C4_AbsentShowsOnlyNotFound ==
  (IsClick /\ run.disk = "absent" /\ run.existsChecks = 1) =>
     /\ Len(out) = 1
     /\ out[1].w = "error"
     /\ ModelPath \in Range(out[1].text)
     /\ "' not found. " \in Range(out[1].text)
     /\ out[1].text # GenericFailureText
     /\ ~Shown("metric") /\ ~Shown("success") /\ ~Shown("exception")
     /\ run.predictArgs = <<>>

C4_Witness ==
  /\ IsClick
  /\ run.disk = "absent"
  /\ run.existsChecks = 1
  /\ Len(out) = 1
  /\ out[1].w = "error"

\* C5: with the artifact present and the inference raising, the generic
\* failure message is shown and exception detail is rendered nowhere but
\* inside a collapsed expander.
C5_NoRawExceptionShown ==
  (IsClick /\ run.disk # "absent" /\ run.diskAtLoad # "absent"
     /\ InferenceRaised) =>
     /\ GenericShown
     /\ \A i \in 1..Len(out) :
          (out[i].w = "exception" \/ out[i].text = Str(run.inferExc)) =>
             out[i].parent = "expander"

\* C6: a run that no click triggered calls neither load_model nor
\* model.predict and renders only the info notice.
C6_NoAutoPredict ==
  ~IsClick =>
     /\ run.loadCalls = 0
     /\ run.existsChecks = 0
     /\ run.deserializations = 0
     /\ run.predictArgs = <<>>
     /\ Len(out) = 1
     /\ out[1].w = "info"
     /\ ~Shown("metric") /\ ~Shown("error")

\* A field was edited after a click and the rerun rendered the info notice.
C6_Witness ==
  /\ run.trigger = "field_change"
  /\ clicks >= 1
  /\ \E f \in FieldNames : fields[f] # Widgets[f].value
  /\ Shown("info")

\* C7 as stated: only the first click touches the filesystem.
C7_OnlyFirstClickReads ==
  (IsClick /\ run.n > 1) => (run.existsChecks = 0 /\ run.deserializations = 0)

\* C7 amended: a click touches the filesystem exactly when no earlier
\* click's load has succeeded; so every click up to and including the first
\* successful load checks the path, and no click after it does.
C7_ReadsUntilFirstSuccess ==
  IsClick =>
     /\ (first.n = 0 \/ run.n <= first.n) => run.existsChecks = 1
     /\ (first.n > 0 /\ run.n > first.n) =>
           (run.existsChecks = 0 /\ run.deserializations = 0)
     /\ run.deserializations <= run.existsChecks

\* A click after a failed load touched the filesystem again.
C7_Witness ==
  /\ IsClick
  /\ run.n >= 2
  /\ run.existsChecks = 1
  /\ run.deserializations = 1

\* C8: one click makes exactly one load_model call and at most one
\* model.predict call; a failure in either shows no metric and no success
\* notice; no exception leaves the handler, and each click runs afresh
\* whatever the earlier clicks ended in.
C8_ErrorsAreTerminalNotFatal ==
  /\ run.uncaught = NoExc
  /\ IsClick =>
       /\ run.loadCalls = 1
       /\ run.n = clicks
       /\ Len(run.predictArgs) <= 1
       /\ LoadFailed => run.predictArgs = <<>>
       /\ (LoadFailed \/ InferenceRaised) => Len(out) <= 2
       /\ (LoadFailed \/ InferenceRaised \/ RenderRaised) =>
             (~Shown("metric") /\ ~Shown("success") /\ Shown("error"))

\* A click that followed only failed clicks loaded the model and predicted.
C8_Witness ==
  /\ IsClick
  /\ run.n >= 2
  /\ first.n = run.n
  /\ Shown("metric")

\* C9: each model.predict call receives one row of exactly seven values,
\* the current field values in the documented order.
C9_SevenFeaturesInOrder ==
  \A k \in 1..Len(run.predictArgs) :
    LET X == run.predictArgs[k]
    IN /\ Len(X) = 1
       /\ Len(X[1]) = 7
       /\ X[1][1] = fields.date_hour
       /\ X[1][2] = fields.wind_speed
       /\ X[1][3] = fields.sunshine
       /\ X[1][4] = fields.air_pressure
       /\ X[1][5] = fields.radiation
       /\ X[1][6] = fields.air_temperature
       /\ X[1][7] = fields.relative_humidity

\* model.predict was called with edited, non-default field values.
C9_Witness ==
  /\ Len(run.predictArgs) = 1
  /\ fields.date_hour # Widgets.date_hour.value
  /\ fields.wind_speed # Widgets.wind_speed.value
  /\ fields.relative_humidity # Widgets.relative_humidity.value

IdleState == Len(out) = 1 /\ out[1].w = "info"
SuccessState ==
  /\ Len(out) = 4
  /\ out[1].w = "metric" /\ out[2].w = "success"
  /\ out[3].w = "expander" /\ out[4].w = "write" /\ out[4].parent = "expander"
FailureState == GenericShown /\ ~Shown("metric") /\ ~Shown("success")

\* C10: the output column is in exactly one of idle, success,
\* missing-artifact error or generic failure; the metric and success notice
\* appear exactly when load and inference both returned, never with an error.
C10_FourExclusiveStates ==
  /\ Cardinality({s \in {"idle", "success", "notfound", "failure"} :
        \/ s = "idle" /\ IdleState
        \/ s = "success" /\ SuccessState
        \/ s = "notfound" /\ NotFoundShown
        \/ s = "failure" /\ FailureState}) = 1
  /\ (Shown("metric") /\ Shown("success")) <=>
        (IsClick /\ ~LoadFailed /\ Len(run.predictArgs) = 1 /\ ~InferenceRaised)
  /\ Shown("metric") => ~Shown("error")

====
